---- MODULE Spec2Model ----
(***************************************************************************)
(* Model of src/app.py: the measurement pipeline process_frame, its        *)
(* helpers is_face_centered / detect_iris_boundaries / detect_pupil_center *)
(* and the HTTP handler measure_api.                                       *)
(*                                                                         *)
(* Conventions.                                                            *)
(*  - A box is the tuple <<x, y, w, h>> (Python indices 0..3 are 1..4).    *)
(*  - Python None is the empty tuple <<>>; an optional integer that is     *)
(*    present is the one-element tuple <<v>>.                              *)
(*  - Float quantities are exact rationals <<numerator, denominator>>      *)
(*    with a positive denominator.  Millimetre outputs, which the code     *)
(*    rounds to two decimals, are integers counting hundredths of a mm.    *)
(*  - The cascade and Hough detectors are library calls on pixel data:     *)
(*    each call returns a nondeterministic element of a small result set.  *)
(***************************************************************************)
EXTENDS Integers, Sequences, FiniteSets, TLC

VARIABLES
    pc,                 \* position of the request inside measure_api / process_frame
    payload,            \* kind of the request's JSON body
    frame,              \* decoded frame: <<>> (None) or its shape <<frame_width, frame_height>>
    faces,              \* face_cascade.detectMultiScale result, in detection order
    idx,                \* position of the for loop over faces (1-based)
    eyes,               \* eye_cascade.detectMultiScale result, in detection order
    left_eye,           \* eye_boxes[0]
    right_eye,          \* eye_boxes[1]
    left_boundaries,    \* detect_iris_boundaries(left_eye_roi)
    right_boundaries,   \* detect_iris_boundaries(right_eye_roi)
    left_pupil,         \* detect_pupil_center(left_eye_roi)
    right_pupil,        \* detect_pupil_center(right_eye_roi)
    path,               \* which branch of the if at line 118 ran: "none", "precise", "approximate"
    eye_pixels,         \* eye_total_width_pixels (precise) or avg_eye_width (approximate), rational
    interpupil_distance_pixels,  \* rational
    pixel_to_mm_ratio,  \* rational
    eye_width_mm,       \* hundredths of a mm
    result,             \* the pair returned by process_frame
    response,           \* the HTTP response of measure_api
    process_calls,      \* number of calls of process_frame in this request
    eye_calls,          \* number of calls of eye_cascade.detectMultiScale in this request
    examined,           \* indices of the face candidates passed to is_face_centered
    cf,                 \* arguments of a stand-alone is_face_centered call
    cres                \* its return value, <<>> before the call

vars == <<pc, payload, frame, faces, idx, eyes, left_eye, right_eye,
          left_boundaries, right_boundaries, left_pupil, right_pupil, path,
          eye_pixels, interpupil_distance_pixels, pixel_to_mm_ratio,
          eye_width_mm, result, response, process_calls, eye_calls, examined,
          cf, cres>>

pipelineVars == <<pc, payload, frame, faces, idx, eyes, left_eye, right_eye,
          left_boundaries, right_boundaries, left_pupil, right_pupil, path,
          eye_pixels, interpupil_distance_pixels, pixel_to_mm_ratio,
          eye_width_mm, result, response, process_calls, eye_calls, examined>>

(***************************************************************************)
(* Bounds of the model.                                                    *)
(***************************************************************************)
MaxFaces == 2
MaxEyes == 3
MaxDim == 10

(***************************************************************************)
(* Program constants.                                                      *)
(***************************************************************************)
KNOWN_DISTANCE_MM == 63

None == <<>>

NoFace == "No face detected"
NoCentered == "No centered face found"
NotEnoughEyes == "Not enough eyes detected"
NoImage == "No image provided."
NoDecode == "Could not decode image."

(***************************************************************************)
(* Arithmetic helpers.                                                     *)
(***************************************************************************)
Abs(n) == IF n < 0 THEN -n ELSE n

\* nearest integer to n/d (d > 0), ties to the even neighbour
RoundHalfEven(n, d) ==
    LET a == Abs(n)
        q == a \div d
        r == a % d
        m == IF 2 * r < d THEN q
             ELSE IF 2 * r > d THEN q + 1
             ELSE IF q % 2 = 0 THEN q ELSE q + 1
    IN  IF n < 0 THEN -m ELSE m

\* round(px * ratio, 2) in hundredths, for rationals px and ratio
\* with positive denominators
Round2(px, ratio) == RoundHalfEven(100 * px[1] * ratio[1], px[2] * ratio[2])

(***************************************************************************)
(* is_face_centered, lines 20-32.  tolerance_x = frame_width * 0.2 and     *)
(* min_face_height = frame_height * 0.3 are kept exact by scaling the      *)
(* comparisons by 5 and by 10.                                             *)
(***************************************************************************)
is_face_centered(face_x, face_y, face_w, face_h, frame_width, frame_height) ==
    LET center_x == face_x + face_w \div 2
        center_y == face_y + face_h \div 2
    IN  /\ 5 * (frame_width \div 2) - frame_width < 5 * center_x
        /\ 5 * center_x < 5 * (frame_width \div 2) + frame_width
        /\ 5 * (frame_height \div 2) - frame_height < 5 * center_y
        /\ 5 * center_y < 5 * (frame_height \div 2) + frame_height
        /\ 10 * face_h > 3 * frame_height

(***************************************************************************)
(* Result sets of the library calls.                                       *)
(***************************************************************************)
\* frame.shape[:2] of the frames cv2.imdecode can yield: <<width, height>>
FrameSizes == {<<200, 200>>, <<640, 480>>}

\* boxes face_cascade.detectMultiScale (line 87) can report in a frame of
\* the given shape: centred and off-centre ones
FaceBoxes(fr) ==
    IF fr = <<200, 200>>
    THEN {<<0, 0, 200, 200>>, <<0, 0, 100, 100>>}
    ELSE {<<220, 140, 200, 200>>, <<210, 140, 200, 200>>, <<0, 0, 200, 200>>}

\* boxes eye_cascade.detectMultiScale (line 100) can report inside a
\* 200 x 200 face region
EyeBoxes == {<<40, 50, 30, 30>>, <<130, 50, 30, 30>>, <<40, 60, 61, 40>>}

\* circles <<x, y, r>> cv2.HoughCircles can report first, in eye-region
\* coordinates
Circles == {<<10, 15, 10>>, <<50, 15, 10>>}

SeqsUpTo(S, n) == UNION {[1..k -> S] : k \in 0..n}

FaceSeqs(fr) == SeqsUpTo(FaceBoxes(fr), MaxFaces)

EyeSeqs == SeqsUpTo(EyeBoxes, MaxEyes)

\* detect_iris_boundaries, lines 34-55: (x - r, x + r) of the first circle,
\* or (None, None)
detect_iris_boundaries(eye) ==
    {<<None, None>>} \cup
    {<< <<c[1] - c[3]>>, <<c[1] + c[3]>> >> : c \in {k \in Circles : k[1] < eye[3]}}

\* detect_pupil_center, lines 57-78: (x, y) of the first circle, or None
detect_pupil_center(eye) ==
    {None} \cup {<<c[1], c[2]>> : c \in {k \in Circles : k[1] < eye[3]}}

(***************************************************************************)
(* sorted(eyes, key=lambda b: b[0]), line 106: a stable sort by x.         *)
(***************************************************************************)
RECURSIVE InsertByX(_, _)
InsertByX(b, s) ==
    IF s = <<>> THEN <<b>>
    ELSE IF b[1] < Head(s)[1] THEN <<b>> \o s
    ELSE <<Head(s)>> \o InsertByX(b, Tail(s))

RECURSIVE SortedByX(_)
SortedByX(s) ==
    IF s = <<>> THEN <<>>
    ELSE InsertByX(s[Len(s)], SortedByX(SubSeq(s, 1, Len(s) - 1)))

eye_boxes(es) == SortedByX(es)

(***************************************************************************)
(* Pieces of process_frame, lines 118-154.                                 *)
(***************************************************************************)
\* a plausible slip: truthiness instead of "is not None", so that an iris
\* boundary at local x = 0 counts as absent
all_features_truthy(lb, rb, lp, rp) ==
    /\ lb[1] # None /\ lb[1] # <<0>>
    /\ rb[2] # None /\ rb[2] # <<0>>
    /\ lp # None
    /\ rp # None

\* the condition of the if at lines 118-119
all_features_present(lb, rb, lp, rp) ==
    /\ lb[1] # None
    /\ rb[2] # None
    /\ lp # None
    /\ rp # None

\* a plausible slip: the fallback ratio is the reference distance itself
ratio_fallback_known(d) ==
    IF d[1] > 0 THEN <<KNOWN_DISTANCE_MM * d[2], d[1]>> ELSE <<KNOWN_DISTANCE_MM, 1>>

\* lines 129-132 and 140-143, for the rational distance d
ratio_of(d) ==
    IF d[1] > 0 THEN <<KNOWN_DISTANCE_MM * d[2], d[1]>> ELSE <<1, 1>>

\* lines 121-127: eye_total_width_pixels and interpupil_distance_pixels
precise_eye_pixels(le, re, lb, rb) ==
    <<(re[1] + rb[2][1]) - (le[1] + lb[1][1]), 1>>

precise_distance(le, re, lp, rp) ==
    <<(re[1] + rp[1]) - (le[1] + lp[1]), 1>>

\* lines 136-139: avg_eye_width and right_center - left_center (halves)
approx_eye_pixels(le, re) == <<le[3] + re[3], 2>>

\* a plausible slip: the distance between the boxes' left edges
approx_distance_edges(le, re) == <<2 * re[1] - 2 * le[1], 2>>

approx_distance(le, re) == <<(2 * re[1] + re[3]) - (2 * le[1] + le[3]), 2>>

\* a plausible slip: the operands of the subtraction are exchanged
bridge_distance_swapped(le, re) == (le[1] + le[3]) - re[1]

\* line 147
bridge_distance_pixels(le, re) == re[1] - (le[1] + le[3])

Min(a, b) == IF a <= b THEN a ELSE b
Max(a, b) == IF a >= b THEN a ELSE b

\* int(w * 0.6), lines 151-152: truncation of 3w/5
int06(w) == (3 * w) \div 5

\* lines 151-153
b_size_pixels(le, re) ==
    Max(Min(le[4], int06(le[3])), Min(re[4], int06(re[3])))

(***************************************************************************)
(* The two shapes of process_frame's return value, and the state before    *)
(* a request.                                                              *)
(***************************************************************************)
ReturnError(reason) == <<None, <<reason>>>>

ReturnMeasurement(m) == << <<m>>, None>>

NoResponse == [status |-> 0, error |-> None, measurement |-> None]

Payloads == {"no_image", "bad_base64", "empty_buffer", "not_an_image", "image"}

InitPipeline ==
    /\ pc = "idle"
    /\ payload = "none"
    /\ frame = None
    /\ faces = <<>>
    /\ idx = 0
    /\ eyes = <<>>
    /\ left_eye = None
    /\ right_eye = None
    /\ left_boundaries = <<None, None>>
    /\ right_boundaries = <<None, None>>
    /\ left_pupil = None
    /\ right_pupil = None
    /\ path = "none"
    /\ eye_pixels = <<0, 1>>
    /\ interpupil_distance_pixels = <<0, 1>>
    /\ pixel_to_mm_ratio = <<0, 1>>
    /\ eye_width_mm = 0
    /\ result = <<>>
    /\ response = NoResponse
    /\ process_calls = 0
    /\ eye_calls = 0
    /\ examined = {}

Init ==
    /\ InitPipeline
    /\ cf = <<>>
    /\ cres = <<>>

(***************************************************************************)
(* measure_api, lines 171-178: read the JSON body.                         *)
(***************************************************************************)
GetJson ==
    /\ pc = "idle"
    /\ \E p \in Payloads :
        /\ payload' = p
        /\ IF p = "no_image"
           THEN /\ response' = [status |-> 400, error |-> <<NoImage>>, measurement |-> None]
                /\ pc' = "done"
           ELSE /\ response' = response
                /\ pc' = "decode"
    /\ UNCHANGED <<frame, faces, idx, eyes, left_eye, right_eye, left_boundaries,
                   right_boundaries, left_pupil, right_pupil, path, eye_pixels,
                   interpupil_distance_pixels, pixel_to_mm_ratio, eye_width_mm,
                   result, process_calls, eye_calls, examined, cf, cres>>

(***************************************************************************)
(* measure_api, lines 179-184: the try block.  base64.b64decode raises on  *)
(* bad padding and cv2.imdecode raises on an empty buffer; on bytes that   *)
(* are not an image cv2.imdecode returns None without raising.             *)
(***************************************************************************)
Decode ==
    /\ pc = "decode"
    /\ \/ /\ payload \in {"bad_base64", "empty_buffer"}
          /\ response' = [status |-> 400, error |-> <<NoDecode>>, measurement |-> None]
          /\ pc' = "done"
          /\ frame' = frame
       \/ /\ payload = "not_an_image"
          /\ frame' = None
          /\ pc' = "call"
          /\ response' = response
       \/ /\ payload = "image"
          /\ \E fr \in FrameSizes : frame' = fr
          /\ pc' = "call"
          /\ response' = response
    /\ UNCHANGED <<payload, faces, idx, eyes, left_eye, right_eye, left_boundaries,
                   right_boundaries, left_pupil, right_pupil, path, eye_pixels,
                   interpupil_distance_pixels, pixel_to_mm_ratio, eye_width_mm,
                   result, process_calls, eye_calls, examined, cf, cres>>

(***************************************************************************)
(* Line 186 calls process_frame; lines 85-90.  frame.shape on None raises  *)
(* AttributeError, which nothing catches: the request ends in a 500.       *)
(***************************************************************************)
ProcessFrameEntry ==
    /\ pc = "call"
    /\ process_calls' = process_calls + 1
    /\ IF frame = None
       THEN /\ response' = [status |-> 500, error |-> None, measurement |-> None]
            /\ pc' = "done"
            /\ UNCHANGED <<faces, idx, result>>
       ELSE /\ \E fs \in FaceSeqs(frame) :
                /\ faces' = fs
                /\ IF Len(fs) = 0
                   THEN /\ result' = ReturnError(NoFace)
                        /\ pc' = "return"
                        /\ idx' = idx
                   ELSE /\ result' = result
                        /\ pc' = "loop"
                        /\ idx' = 1
            /\ response' = response
    /\ UNCHANGED <<payload, frame, eyes, left_eye, right_eye, left_boundaries,
                   right_boundaries, left_pupil, right_pupil, path, eye_pixels,
                   interpupil_distance_pixels, pixel_to_mm_ratio, eye_width_mm,
                   eye_calls, examined, cf, cres>>

(***************************************************************************)
(* Lines 93-95 and 163: one iteration of the for loop, or its exhaustion.  *)
(***************************************************************************)
\* a plausible slip: the final return statement is missing, so that the
\* function falls off its end
LoopStepNoFinalReturn ==
    /\ pc = "loop"
    /\ IF idx > Len(faces)
       THEN /\ result' = <<None, None>>
            /\ pc' = "return"
            /\ UNCHANGED <<idx, examined>>
       ELSE /\ examined' = examined \cup {idx}
            /\ result' = result
            /\ IF is_face_centered(faces[idx][1], faces[idx][2], faces[idx][3],
                                   faces[idx][4], frame[1], frame[2])
               THEN pc' = "eyes" /\ idx' = idx
               ELSE pc' = "loop" /\ idx' = idx + 1
    /\ UNCHANGED <<payload, frame, faces, eyes, left_eye, right_eye, left_boundaries,
                   right_boundaries, left_pupil, right_pupil, path, eye_pixels,
                   interpupil_distance_pixels, pixel_to_mm_ratio, eye_width_mm,
                   response, process_calls, eye_calls, cf, cres>>

LoopStep ==
    /\ pc = "loop"
    /\ IF idx > Len(faces)
       THEN /\ result' = ReturnError(NoCentered)
            /\ pc' = "return"
            /\ UNCHANGED <<idx, examined>>
       ELSE /\ examined' = examined \cup {idx}
            /\ result' = result
            /\ IF is_face_centered(faces[idx][1], faces[idx][2], faces[idx][3],
                                   faces[idx][4], frame[1], frame[2])
               THEN pc' = "eyes" /\ idx' = idx
               ELSE pc' = "loop" /\ idx' = idx + 1
    /\ UNCHANGED <<payload, frame, faces, eyes, left_eye, right_eye, left_boundaries,
                   right_boundaries, left_pupil, right_pupil, path, eye_pixels,
                   interpupil_distance_pixels, pixel_to_mm_ratio, eye_width_mm,
                   response, process_calls, eye_calls, cf, cres>>

(***************************************************************************)
(* Lines 98-108: eye detection in the accepted face, and the choice of     *)
(* the two eye boxes.                                                      *)
(***************************************************************************)
\* a plausible slip: a face with too few eyes is skipped like an
\* off-centre one and the loop goes on to the next candidate
too_few_eyes_continue(i, res) == [pc |-> "loop", idx |-> i + 1, result |-> res]

\* lines 102-103: the return inside the loop
too_few_eyes(i, res) ==
    [pc |-> "return", idx |-> i, result |-> ReturnError(NotEnoughEyes)]

DetectEyes ==
    /\ pc = "eyes"
    /\ eye_calls' = eye_calls + 1
    /\ \E es \in EyeSeqs :
        /\ eyes' = es
        /\ IF Len(es) < 2
           THEN /\ pc' = too_few_eyes(idx, result).pc
                /\ idx' = too_few_eyes(idx, result).idx
                /\ result' = too_few_eyes(idx, result).result
                /\ UNCHANGED <<left_eye, right_eye>>
           ELSE /\ left_eye' = eye_boxes(es)[1]
                /\ right_eye' = eye_boxes(es)[2]
                /\ pc' = "features"
                /\ UNCHANGED <<idx, result>>
    /\ UNCHANGED <<payload, frame, faces, left_boundaries, right_boundaries,
                   left_pupil, right_pupil, path, eye_pixels,
                   interpupil_distance_pixels, pixel_to_mm_ratio, eye_width_mm,
                   response, process_calls, examined, cf, cres>>

(***************************************************************************)
(* Lines 110-116: the four sub-feature detector calls.                     *)
(***************************************************************************)
DetectFeatures ==
    /\ pc = "features"
    /\ left_boundaries' \in detect_iris_boundaries(left_eye)
    /\ right_boundaries' \in detect_iris_boundaries(right_eye)
    /\ left_pupil' \in detect_pupil_center(left_eye)
    /\ right_pupil' \in detect_pupil_center(right_eye)
    /\ pc' = "calibrate"
    /\ UNCHANGED <<payload, frame, faces, idx, eyes, left_eye, right_eye, path,
                   eye_pixels, interpupil_distance_pixels, pixel_to_mm_ratio,
                   eye_width_mm, result, response, process_calls, eye_calls,
                   examined, cf, cres>>

(***************************************************************************)
(* Lines 118-144: the precise or the approximate calibration.              *)
(***************************************************************************)
Calibrate ==
    /\ pc = "calibrate"
    /\ IF all_features_present(left_boundaries, right_boundaries, left_pupil, right_pupil)
       THEN /\ path' = "precise"
            /\ eye_pixels' = precise_eye_pixels(left_eye, right_eye,
                                                left_boundaries, right_boundaries)
            /\ interpupil_distance_pixels' =
                   precise_distance(left_eye, right_eye, left_pupil, right_pupil)
       ELSE /\ path' = "approximate"
            /\ eye_pixels' = approx_eye_pixels(left_eye, right_eye)
            /\ interpupil_distance_pixels' = approx_distance(left_eye, right_eye)
    /\ pixel_to_mm_ratio' = ratio_of(interpupil_distance_pixels')
    /\ eye_width_mm' = Round2(eye_pixels', pixel_to_mm_ratio')
    /\ pc' = "synthesize"
    /\ UNCHANGED <<payload, frame, faces, idx, eyes, left_eye, right_eye,
                   left_boundaries, right_boundaries, left_pupil, right_pupil,
                   result, response, process_calls, eye_calls, examined, cf, cres>>

(***************************************************************************)
(* Lines 146-161: bridge width, b size and the returned measurement.       *)
(***************************************************************************)
Synthesize ==
    /\ pc = "synthesize"
    /\ result' = ReturnMeasurement(
           [eye_width_mm |-> eye_width_mm,
            bridge_width_mm |->
                Round2(<<bridge_distance_pixels(left_eye, right_eye), 1>>, pixel_to_mm_ratio),
            b_size_mm |->
                Round2(<<b_size_pixels(left_eye, right_eye), 1>>, pixel_to_mm_ratio)])
    /\ pc' = "return"
    /\ UNCHANGED <<payload, frame, faces, idx, eyes, left_eye, right_eye,
                   left_boundaries, right_boundaries, left_pupil, right_pupil, path,
                   eye_pixels, interpupil_distance_pixels, pixel_to_mm_ratio,
                   eye_width_mm, response, process_calls, eye_calls, examined,
                   cf, cres>>

(***************************************************************************)
(* measure_api, lines 186-191: the response built from the returned pair.  *)
(***************************************************************************)
\* a plausible slip: the error message is dropped and every returned pair
\* is serialised as a success
response_always_ok(res) == [status |-> 200, error |-> None, measurement |-> res[1]]

\* "if error_msg:" is the truthiness of the second component
response_of(res) ==
    IF res[2] # None /\ res[2] # <<"">>
    THEN [status |-> 400, error |-> res[2], measurement |-> None]
    ELSE [status |-> 200, error |-> None, measurement |-> res[1]]

Respond ==
    /\ pc = "return"
    /\ response' = response_of(result)
    /\ pc' = "done"
    /\ UNCHANGED <<payload, frame, faces, idx, eyes, left_eye, right_eye,
                   left_boundaries, right_boundaries, left_pupil, right_pupil, path,
                   eye_pixels, interpupil_distance_pixels, pixel_to_mm_ratio,
                   eye_width_mm, result, process_calls, eye_calls, examined,
                   cf, cres>>

(***************************************************************************)
(* The route of line 165 serves the next request; every value above is     *)
(* local to one request.                                                   *)
(***************************************************************************)
NextRequest ==
    /\ pc = "done"
    /\ pc' = "idle"
    /\ payload' = "none"
    /\ frame' = None
    /\ faces' = <<>>
    /\ idx' = 0
    /\ eyes' = <<>>
    /\ left_eye' = None
    /\ right_eye' = None
    /\ left_boundaries' = <<None, None>>
    /\ right_boundaries' = <<None, None>>
    /\ left_pupil' = None
    /\ right_pupil' = None
    /\ path' = "none"
    /\ eye_pixels' = <<0, 1>>
    /\ interpupil_distance_pixels' = <<0, 1>>
    /\ pixel_to_mm_ratio' = <<0, 1>>
    /\ eye_width_mm' = 0
    /\ result' = <<>>
    /\ response' = NoResponse
    /\ process_calls' = 0
    /\ eye_calls' = 0
    /\ examined' = {}
    /\ UNCHANGED <<cf, cres>>

Next ==
    \/ GetJson
    \/ Decode
    \/ ProcessFrameEntry
    \/ LoopStep
    \/ DetectEyes
    \/ DetectFeatures
    \/ Calibrate
    \/ Synthesize
    \/ Respond
    \/ NextRequest

Spec == Init /\ [][Next]_vars

(***************************************************************************)
(* is_face_centered on its own: every box inside every frame of up to      *)
(* MaxDim x MaxDim pixels.                                                 *)
(***************************************************************************)
CenteredInputs ==
    {a \in [x : 0..MaxDim, y : 0..MaxDim, w : 1..MaxDim, h : 1..MaxDim,
            fw : 1..MaxDim, fh : 1..MaxDim] :
        a.x + a.w <= a.fw /\ a.y + a.h <= a.fh}

InitCentered ==
    /\ InitPipeline
    /\ cf \in CenteredInputs
    /\ cres = <<>>

CallCentered ==
    /\ cres = <<>>
    /\ cres' = <<is_face_centered(cf.x, cf.y, cf.w, cf.h, cf.fw, cf.fh)>>
    /\ UNCHANGED cf
    /\ UNCHANGED pipelineVars

NextCentered == CallCentered

SpecCentered == InitCentered /\ [][NextCentered]_vars

(***************************************************************************)
(* Properties.                                                             *)
(***************************************************************************)
Returned == result # <<>>

HasMeasurement == Returned /\ result[1] # None

Reasons == {<<NoFace>>, <<NoCentered>>, <<NotEnoughEyes>>}

MeasurementFields == {"eye_width_mm", "bridge_width_mm", "b_size_mm"}

IsMeasurementOnly ==
    /\ result[1] # None
    /\ DOMAIN result[1][1] = MeasurementFields
    /\ result[2] = None

IsErrorOnly ==
    /\ result[1] = None
    /\ result[2] \in Reasons

\* C1: every call of process_frame on a valid frame returns either a
\* measurement with the three fields and no error, or no measurement and one
\* of the three reasons; never both and never neither.
C1_ExactlyOne ==
    (pc \in {"return", "done"} /\ process_calls > 0 /\ frame # None) =>
        /\ Returned
        /\ IsMeasurementOnly \/ IsErrorOnly
        /\ ~(IsMeasurementOnly /\ IsErrorOnly)

C1_Witness ==
    /\ pc = "return"
    /\ HasMeasurement
    /\ result[2] = None

Accepted ==
    {i \in 1..Len(faces) :
        is_face_centered(faces[i][1], faces[i][2], faces[i][3], faces[i][4],
                         frame[1], frame[2])}

FirstAccepted == CHOOSE i \in Accepted : \A j \in Accepted : i <= j

\* C2: the candidates are consumed in detection order and the first accepted
\* one alone decides the result: no face -> NoFace, none accepted ->
\* NoCentered, first accepted with fewer than two eyes -> NotEnoughEyes,
\* otherwise a measurement; the eye detector runs at most once and no
\* candidate after the first accepted one is examined.
C2_FirstAcceptedDecides ==
    /\ eye_calls <= 1
    /\ (frame # None /\ Accepted # {}) => examined \subseteq 1..FirstAccepted
    /\ (frame # None /\ eye_calls = 1) => (Accepted # {} /\ idx = FirstAccepted)
    /\ (Returned /\ frame # None) =>
        /\ faces = <<>> => (result = <<None, <<NoFace>>>> /\ examined = {})
        /\ (faces # <<>> /\ Accepted = {}) =>
              /\ result = <<None, <<NoCentered>>>>
              /\ examined = 1..Len(faces)
              /\ eye_calls = 0
        /\ Accepted # {} =>
              /\ examined = 1..FirstAccepted
              /\ eye_calls = 1
              /\ Len(eyes) < 2 => result = <<None, <<NotEnoughEyes>>>>
              /\ Len(eyes) >= 2 => IsMeasurementOnly

\* the first accepted face has too few eyes and a later candidate is
\* centred as well
C2_Witness ==
    /\ pc = "return"
    /\ Returned
    /\ Cardinality(Accepted) = 2
    /\ faces[1] # faces[2]
    /\ Len(eyes) < 2
    /\ result = <<None, <<NotEnoughEyes>>>>

\* C3: is_face_centered accepts a box iff its centre x + w/2, y + h/2 is
\* strictly within 20% of the frame width / height of the frame midpoint
\* and its height strictly exceeds 30% of the frame height, for odd as well
\* as even dimensions (the comparisons are scaled by 10 to stay integral).
C3_TrueCentre ==
    cres # <<>> =>
        (cres[1] <=>
            /\ 5 * Abs((2 * cf.x + cf.w) - cf.fw) < 2 * cf.fw
            /\ 5 * Abs((2 * cf.y + cf.h) - cf.fh) < 2 * cf.fh
            /\ 10 * cf.h > 3 * cf.fh)

Calibrated == path # "none"

AllFourPresent ==
    /\ left_boundaries[1] # None /\ left_boundaries[2] # None
    /\ right_boundaries[1] # None /\ right_boundaries[2] # None
    /\ left_pupil # None
    /\ right_pupil # None

\* C4: exactly one calibration path runs; it is the precise one iff the
\* iris boundaries and the pupil centres of both eyes are present, the
\* approximate one iff one of the four is absent; the quantities of the two
\* paths are never mixed.
C4_OnePath ==
    Calibrated =>
        /\ path \in {"precise", "approximate"}
        /\ path = "precise" <=> AllFourPresent
        /\ path = "approximate" <=> ~AllFourPresent
        /\ path = "precise" =>
              /\ eye_pixels = <<(right_eye[1] + right_boundaries[2][1])
                                 - (left_eye[1] + left_boundaries[1][1]), 1>>
              /\ interpupil_distance_pixels =
                   <<(right_eye[1] + right_pupil[1]) - (left_eye[1] + left_pupil[1]), 1>>
        /\ path = "approximate" =>
              /\ eye_pixels = <<left_eye[3] + right_eye[3], 2>>
              /\ interpupil_distance_pixels =
                   <<(2 * right_eye[1] + right_eye[3]) - (2 * left_eye[1] + left_eye[3]), 2>>

\* all four features found, with the left iris boundary at local x = 0
C4_Witness ==
    /\ Calibrated
    /\ path = "precise"
    /\ left_boundaries[1] = <<0>>

\* C5: a zero or negative inter-pupil distance raises nothing, gives the
\* ratio 1 and outputs equal to the pixel quantities; a positive distance
\* gives the ratio 63 / distance; the ratio is always positive.
C5_DegenerateRatio ==
    Calibrated =>
        /\ pixel_to_mm_ratio[1] > 0 /\ pixel_to_mm_ratio[2] > 0
        /\ interpupil_distance_pixels[1] > 0 =>
              pixel_to_mm_ratio[1] * interpupil_distance_pixels[1]
                  = 63 * interpupil_distance_pixels[2] * pixel_to_mm_ratio[2]
        /\ interpupil_distance_pixels[1] <= 0 =>
              /\ pixel_to_mm_ratio = <<1, 1>>
              /\ eye_width_mm * eye_pixels[2] = 100 * eye_pixels[1]
              /\ pc \in {"return", "done"} =>
                    /\ HasMeasurement
                    /\ result[1][1].eye_width_mm * eye_pixels[2] = 100 * eye_pixels[1]
                    /\ result[1][1].bridge_width_mm
                          = 100 * (right_eye[1] - (left_eye[1] + left_eye[3]))
                    /\ result[1][1].b_size_mm = 100 * b_size_pixels(left_eye, right_eye)

C5_Witness ==
    /\ pc = "return"
    /\ HasMeasurement
    /\ path = "precise"
    /\ interpupil_distance_pixels[1] < 0

C5_WitnessApproximate ==
    /\ pc = "return"
    /\ HasMeasurement
    /\ path = "approximate"
    /\ interpupil_distance_pixels[1] <= 0

\* C6 as stated: the three fields of every measurement are non-negative.
C6_AllNonNegative ==
    HasMeasurement =>
        /\ result[1][1].eye_width_mm >= 0
        /\ result[1][1].bridge_width_mm >= 0
        /\ result[1][1].b_size_mm >= 0

\* C6 as amended: b_size_mm is never negative and eye_width_mm is never
\* negative on the approximate path; bridge_width_mm is not negative when
\* the chosen boxes do not overlap horizontally and not positive when they
\* do; on the precise path eye_width_mm has the sign of the iris span.
C6_SignsFollowGeometry ==
    HasMeasurement =>
        /\ result[1][1].b_size_mm >= 0
        /\ path = "approximate" => result[1][1].eye_width_mm >= 0
        /\ right_eye[1] >= left_eye[1] + left_eye[3] => result[1][1].bridge_width_mm >= 0
        /\ right_eye[1] < left_eye[1] + left_eye[3] => result[1][1].bridge_width_mm <= 0
        /\ (path = "precise" /\ eye_pixels[1] >= 0) => result[1][1].eye_width_mm >= 0
        /\ (path = "precise" /\ eye_pixels[1] < 0) => result[1][1].eye_width_mm <= 0

\* overlapping boxes and a negative bridge width
C6_Witness ==
    /\ HasMeasurement
    /\ right_eye[1] < left_eye[1] + left_eye[3]
    /\ result[1][1].bridge_width_mm < 0

C6_WitnessNegativeEyeWidth ==
    /\ HasMeasurement
    /\ result[1][1].eye_width_mm < 0

\* the chosen boxes are the two smallest-x detections, left then right
TwoSmallestX ==
    \E i, j \in 1..Len(eyes) :
        /\ i # j
        /\ eyes[i] = left_eye
        /\ eyes[j] = right_eye
        /\ left_eye[1] <= right_eye[1]
        /\ \A k \in 1..Len(eyes) : k \notin {i, j} => eyes[k][1] >= right_eye[1]

ScenarioA ==
    /\ left_eye[1] = 40 /\ left_eye[3] = 30
    /\ right_eye[1] = 130 /\ right_eye[3] = 30

\* C7: on the approximate path the chosen boxes are the two smallest-x
\* detections; ratio = 63 / (right centre - left centre) when positive,
\* eye_width_mm = mean width x ratio, bridge_width_mm = (right x - (left x +
\* left width)) x ratio, each rounded to 2 decimals; boxes x=40,w=30 and
\* x=130,w=30 give ratio 63/90, 21.00 and 42.00.
C7_ApproximateOutputs ==
    (HasMeasurement /\ path = "approximate") =>
        LET dn == (2 * right_eye[1] + right_eye[3]) - (2 * left_eye[1] + left_eye[3])
        IN  /\ TwoSmallestX
            /\ dn > 0 =>
                  /\ pixel_to_mm_ratio[1] * dn = 126 * pixel_to_mm_ratio[2]
                  /\ result[1][1].eye_width_mm
                        = RoundHalfEven(100 * 63 * (left_eye[3] + right_eye[3]), dn)
                  /\ result[1][1].bridge_width_mm
                        = RoundHalfEven(100 * 126 * (right_eye[1] - (left_eye[1] + left_eye[3])), dn)
            /\ ScenarioA =>
                  /\ pixel_to_mm_ratio[1] * 90 = 63 * pixel_to_mm_ratio[2]
                  /\ result[1][1].eye_width_mm = 2100
                  /\ result[1][1].bridge_width_mm = 4200

C7_Witness ==
    /\ HasMeasurement
    /\ path = "approximate"
    /\ Len(eyes) = 3
    /\ eyes[1][1] > eyes[2][1]
    /\ ScenarioA

\* C8: b_size_mm = max(min(left height, 0.6 x left width), min(right
\* height, 0.6 x right width)) x ratio with 0.6 x width exact, not truncated
\* (pixel quantities in fifths of a pixel), rounded to 2 decimals.
C8_ExactSixTenths ==
    HasMeasurement =>
        LET fifths == Max(Min(5 * left_eye[4], 3 * left_eye[3]),
                          Min(5 * right_eye[4], 3 * right_eye[3]))
        IN  result[1][1].b_size_mm
                = RoundHalfEven(100 * fifths * pixel_to_mm_ratio[1], 5 * pixel_to_mm_ratio[2])

C9_WitnessError ==
    /\ pc = "done"
    /\ payload = "image"
    /\ response.status = 400
    /\ response.error = <<NotEnoughEyes>>

\* C10: a malformed or undecodable image is answered with an error response
\* before the core runs: process_frame is never called without a decoded
\* frame.
C10_CoreOnlyOnValidFrame ==
    /\ process_calls > 0 => frame # None
    /\ (pc = "done" /\ payload \in {"bad_base64", "empty_buffer", "not_an_image"}) =>
          (response.status = 400 /\ process_calls = 0)

====
